---- MODULE Spec2Model ----
(***************************************************************************)
(* Model of travis-g/browse (src/main.go): a static HTTP server that       *)
(* renders directory listings.  Strings are tuples of one-character        *)
(* strings, so that prefix tests, path cleaning and formatting are         *)
(* computed character by character as the Go code computes them.           *)
(***************************************************************************)
EXTENDS Integers, Sequences, FiniteSets, TLC

\* ------------------------------------------------------------------ bounds
MaxLen == 3
MaxFsChanges == 2

\* --------------------------------------------------------------- alphabet
Chars == {"/", ".", "a", "%"}
Clients == {"c1", "c2"}
Methods == {"GET", "CONNECT"}

Strings(n) == UNION {[1..k -> Chars] : k \in 0..n}

\* the URL paths requested, without their leading "/"
URLPaths == Strings(MaxLen)

\* ------------------------------------------------------- string helpers
HasPrefix(s, p) == Len(s) >= Len(p) /\ SubSeq(s, 1, Len(p)) = p

TrimPrefix(s, p) == IF HasPrefix(s, p) THEN SubSeq(s, Len(p) + 1, Len(s)) ELSE s

RECURSIVE SplitFrom(_, _, _)
SplitFrom(s, i, cur) ==
    IF i > Len(s) THEN <<cur>>
    ELSE IF s[i] = "/" THEN <<cur>> \o SplitFrom(s, i + 1, <<>>)
    ELSE SplitFrom(s, i + 1, Append(cur, s[i]))

\* the "/"-separated elements of s (empty elements kept)
Split(s) == SplitFrom(s, 1, <<>>)

RECURSIVE JoinSlash(_)
JoinSlash(cs) ==
    IF cs = <<>> THEN <<>>
    ELSE IF Len(cs) = 1 THEN cs[1]
    ELSE cs[1] \o <<"/">> \o JoinSlash(Tail(cs))

DotDot == <<".", ".">>

RECURSIVE CleanElems(_, _, _)
CleanElems(cs, out, rooted) ==
    IF cs = <<>> THEN out
    ELSE LET c == Head(cs) IN
         IF c = <<>> \/ c = <<".">> THEN CleanElems(Tail(cs), out, rooted)
         ELSE IF c = DotDot THEN
              IF out # <<>> /\ out[Len(out)] # DotDot
                  THEN CleanElems(Tail(cs), SubSeq(out, 1, Len(out) - 1), rooted)
              ELSE IF rooted THEN CleanElems(Tail(cs), out, rooted)
              ELSE CleanElems(Tail(cs), Append(out, c), rooted)
         ELSE CleanElems(Tail(cs), Append(out, c), rooted)

\* filepath.Clean / path.Clean (Unix): the shortest lexically equivalent path
Clean(s) ==
    IF s = <<>> THEN <<".">>
    ELSE LET rooted == s[1] = "/"
             body   == JoinSlash(CleanElems(Split(s), <<>>, rooted))
         IN  IF rooted THEN <<"/">> \o body
             ELSE IF body = <<>> THEN <<".">> ELSE body

\* the working directory of the process; the program never changes it
Getwd == <<"/", "r">>

\* filepath.Abs: absolute paths are cleaned, others are joined to the cwd
Abs(p) ==
    IF p # <<>> /\ p[1] = "/" THEN Clean(p)
    ELSE IF p = <<>> THEN Clean(Getwd)
    ELSE Clean(Getwd \o <<"/">> \o p)

NoVerb == <<"%", "!", "(", "N", "O", "V", "E", "R", "B", ")">>
Missing(v) == <<"%", "!", v, "(", "M", "I", "S", "S", "I", "N", "G", ")">>

RECURSIVE SprintfFrom(_, _)
SprintfFrom(f, i) ==
    IF i > Len(f) THEN <<>>
    ELSE IF f[i] # "%" THEN <<f[i]>> \o SprintfFrom(f, i + 1)
    ELSE LET j == IF i + 1 <= Len(f) /\ f[i + 1] = "." THEN i + 2 ELSE i + 1 IN
         IF j > Len(f) THEN NoVerb
         ELSE IF f[j] = "%" THEN <<"%">> \o SprintfFrom(f, j + 1)
         ELSE Missing(f[j]) \o SprintfFrom(f, j + 1)

\* fmt.Sprintf(format) with no operands: "%%" prints "%", a verb without
\* operand prints %!v(MISSING), a trailing "%" prints %!(NOVERB); "." after
\* "%" is read as an (empty) precision
Sprintf(f) == SprintfFrom(f, 1)

\* abs (main.go:94): the path of dir relative to root, rooted at "/"
abs(dir, root) ==
    LET d    == Abs(dir)
        r    == Abs(root)
        path == TrimPrefix(d, r)
    IN  Sprintf(Clean(<<"/">> \o path))

\* ------------------------------------------------------------ file system
\* The disk the server runs on.  The serving root is /r; its parent / lies
\* outside the served tree.  Entries are listed in file-name order, the
\* order in which ioutil.ReadDir returns them.
Entry(n, d) == [name |-> n, isDir |-> d]

Child(dir, name) == IF dir = <<"/">> THEN dir \o name ELSE dir \o <<"/">> \o name

pR    == Getwd
pA    == Child(pR, <<"a">>)
pAPct == Child(pR, <<"a", "%">>)
pAA   == Child(pR, <<"a", "a">>)

Tree ==
    (<<"/">> :> << Entry(<<"r">>, TRUE) >>)
 @@ (pR    :> << Entry(<<"%">>, FALSE), Entry(<<".", "a">>, FALSE),
                 Entry(<<"a">>, TRUE), Entry(<<"a", "%">>, TRUE),
                 Entry(<<"a", "a">>, TRUE) >>)
 @@ (pA    :> << Entry(<<".", "a">>, FALSE), Entry(<<"a">>, FALSE) >>)
 @@ (pAPct :> << Entry(<<"a">>, FALSE) >>)
 @@ (pAA   :> << >>)

Dirs == DOMAIN Tree

AllPaths == Dirs \cup {Child(d, Tree[d][i].name) : <<d, i>> \in
                          {<<d, i>> \in Dirs \X (1..5) : i <= Len(Tree[d])}}

\* the paths other processes change while the server runs
Mutable == {pA, pAA, Child(pA, <<"a">>)}

VARIABLES
    started,        \* main has run
    Root,           \* the package-level variable Root (main.go:15)
    fileServerRoot, \* the directory given to http.FileServer (main.go:68)
    removed,        \* the paths removed from the disk since startup
    noperm,         \* the directories whose permissions are revoked
    fsChanges,      \* number of changes made to the disk so far
    pc,             \* position of the request being handled
    method,         \* r.Method
    urlPath,        \* r.URL.Path as the handler chain sees it
    remoteAddr,     \* r.RemoteAddr
    path,           \* handleServe's path (main.go:126)
    statErr,        \* the error of os.Stat (main.go:128)
    info,           \* the FileInfo of os.Stat: "nil", "dir" or "file"
    contents,       \* what handleDirectory's ReadDir returned
    list,           \* the Listing built by handleDirectory, if any
    status,         \* response status line, 0 while not written
    body,           \* chunks written to the response
    panicked,       \* the handler goroutine panicked
    renderErr,      \* ExecuteTemplate returned an error
    ops,            \* what the request did, in order
    log             \* log lines of the request

vars == <<started, Root, fileServerRoot, removed, noperm, fsChanges, pc,
          method, urlPath, remoteAddr, path, statErr, info, contents, list,
          status, body, panicked, renderErr, ops, log>>

fsVars  == <<removed, noperm, fsChanges>>

\* the paths currently on disk
exists == AllPaths \ removed
cfgVars == <<started, Root, fileServerRoot>>

RECURSIVE Walk(_, _)
Walk(cur, cs) ==
    IF cs = <<>> THEN [err |-> "none", info |-> IF cur \in Dirs THEN "dir" ELSE "file"]
    ELSE IF cur \notin Dirs THEN [err |-> "ENOTDIR", info |-> "nil"]
    ELSE IF cur \in noperm THEN [err |-> "EACCES", info |-> "nil"]
    ELSE IF Child(cur, Head(cs)) \notin exists THEN [err |-> "ENOENT", info |-> "nil"]
    ELSE Walk(Child(cur, Head(cs)), Tail(cs))

Elems(absPath) == SelectSeq(Split(absPath), LAMBDA c : c # <<>>)

\* os.Stat of a path, resolved from the working directory
Stat(p) == Walk(<<"/">>, Elems(Abs(p)))

\* os.IsNotExist
IsNotExist(err) == err = "ENOENT"

\* ioutil.ReadDir: the entries of the directory, sorted by file name
ReadDir(p) ==
    LET st == Stat(p) IN
    IF st.err # "none" THEN [err |-> st.err, files |-> <<>>]
    ELSE IF st.info # "dir" THEN [err |-> "ENOTDIR", files |-> <<>>]
    ELSE IF Abs(p) \in noperm THEN [err |-> "EACCES", files |-> <<>>]
    ELSE [err |-> "none",
          files |-> SelectSeq(Tree[Abs(p)],
                              LAMBDA e : Child(Abs(p), e.name) \in exists)]

\* ------------------------------------------------------------ the program
\* strings.HasPrefix(fi.Name(), ".") (main.go:89)
Hidden(fi) == HasPrefix(fi.name, <<".">>)

\* a filter that tests the end of the name instead of its start
VisibleBySuffix(fi) == fi.name[Len(fi.name)] # "."

\* the predicate filterFiles passes to filter (main.go:88)
Visible(fi) == ~Hidden(fi)

\* filter (main.go:76): the elements satisfying f, in order; the predicate
\* is a function from the elements to BOOLEAN
RECURSIVE filter(_, _)
filter(files, f) ==
    IF files = <<>> THEN <<>>
    ELSE IF f[Head(files)] THEN <<Head(files)>> \o filter(Tail(files), f)
    ELSE filter(Tail(files), f)

\* filterFiles (main.go:86): filter out hidden files
filterFiles(files) ==
    filter(files, [fi \in {files[i] : i \in 1..Len(files)} |-> Visible(fi)])

\* the predicate handleDirectory passes to splitFiles (main.go:109)
EntryIsDir(fi) == fi.isDir

\* splitFiles (main.go:156): a takes the elements satisfying f, b the others
RECURSIVE splitFiles(_, _)
splitFiles(vs, f) ==
    IF vs = <<>> THEN [a |-> <<>>, b |-> <<>>]
    ELSE LET rest == splitFiles(Tail(vs), f) IN
         IF f[Head(vs)] THEN [a |-> <<Head(vs)>> \o rest.a, b |-> rest.b]
         ELSE [a |-> rest.a, b |-> <<Head(vs)>> \o rest.b]

\* href of an entry: {{printf "%s/%s" $dir .Name | clean}} (main.go:32, 37)
Href(dir, name) == Clean(dir \o <<"/">> \o name)

Chunk(k, n, h) == [kind |-> k, name |-> n, href |-> h]

RECURSIVE Links(_, _, _)
Links(kind, dir, fis) ==
    IF fis = <<>> THEN <<>>
    ELSE <<Chunk(kind, Head(fis).name, Href(dir, Head(fis).name))>>
         \o Links(kind, dir, Tail(fis))

\* the pieces the template writes to the response, in order (main.go:21-48)
Template(l) ==
    LET dir == abs(l.Dir, l.Root) IN
       <<Chunk("title", <<>>, dir)>>
    \o Links("dir", dir, l.Directories)
    \o Links("file", dir, l.Files)
    \o <<Chunk("tail", <<>>, <<>>)>>

\* http.ResponseWriter.Write: the first write commits status 200
Write(resp, chunk) ==
    [status |-> IF resp.status = 0 THEN 200 ELSE resp.status,
     body   |-> Append(resp.body, chunk)]

RECURSIVE WriteAll(_, _)
WriteAll(resp, chunks) ==
    IF chunks = <<>> THEN resp ELSE WriteAll(Write(resp, Head(chunks)), Tail(chunks))

\* http.Error / http.NotFound: WriteHeader has no effect once a status is
\* committed; the error text is written to the body
HttpError(resp, code) ==
    [status |-> IF resp.status = 0 THEN code ELSE resp.status,
     body   |-> Append(resp.body, Chunk("error", <<>>, <<>>))]

Op(o, p, ok) == [op |-> o, path |-> p, ok |-> ok]

\* net/http's cleanPath: path.Clean of the rooted path, trailing slash kept
cleanPath(p) ==
    IF p = <<>> THEN <<"/">>
    ELSE LET q  == IF p[1] = "/" THEN p ELSE <<"/">> \o p
             np == Clean(q)
         IN  IF q[Len(q)] = "/" /\ np # <<"/">> THEN np \o <<"/">> ELSE np

\* the file http.FileServer(http.Dir(Root)) opens for a request
FileServerPath(root, upath) ==
    LET name == Clean(<<"/">> \o upath) IN
    IF name = <<"/">> THEN Clean(root) ELSE Clean(root \o name)

NoResponse == [status |-> 0, body |-> <<>>]

Init ==
    /\ started = FALSE
    /\ Root = <<>>
    /\ fileServerRoot = <<>>
    /\ removed = {}
    /\ noperm = {}
    /\ fsChanges = 0
    /\ pc = "idle"
    /\ method = "GET"
    /\ urlPath = <<>>
    /\ remoteAddr = "c1"
    /\ path = <<>>
    /\ statErr = "none"
    /\ info = "nil"
    /\ contents = <<>>
    /\ list = <<>>
    /\ status = 0
    /\ body = <<>>
    /\ panicked = FALSE
    /\ renderErr = FALSE
    /\ ops = <<>>
    /\ log = <<>>

\* main (main.go:59-73): "Root, err := os.Getwd()" declares a new local
\* Root; the package-level Root keeps its zero value
main ==
    /\ ~started
    /\ started' = TRUE
    /\ fileServerRoot' = Getwd
    /\ Root' = Root
    /\ UNCHANGED <<fsVars, pc, method, urlPath, remoteAddr, path, statErr, info,
                   contents, list, status, body, panicked, renderErr, ops, log>>

\* A request for URL path "/" \o p arrives at the mux (main.go:67-69).
\* ServeMux redirects a request whose path is not clean, except for CONNECT;
\* StripPrefix("/") removes the leading slash and calls the chain.
ServeMux(m, p, addr) ==
    /\ started
    /\ pc = "idle"
    /\ method' = m
    /\ remoteAddr' = addr
    /\ IF m # "CONNECT" /\ cleanPath(<<"/">> \o p) # <<"/">> \o p
         THEN /\ status' = 301
              /\ urlPath' = <<>>
              /\ pc' = "done"
         ELSE /\ status' = 0
              /\ urlPath' = p
              /\ pc' = "logging"
    /\ UNCHANGED <<cfgVars, fsVars, path, statErr, info, contents, list, body,
                   panicked, renderErr, ops, log>>

\* loggingMiddleware (main.go:148-153)
loggingMiddleware ==
    /\ pc = "logging"
    /\ log' = Append(log, <<abs(Clean(urlPath), Root), remoteAddr>>)
    /\ ops' = Append(ops, Op("log", abs(Clean(urlPath), Root), TRUE))
    /\ pc' = "serve"
    /\ UNCHANGED <<cfgVars, fsVars, method, urlPath, remoteAddr, path, statErr,
                   info, contents, list, status, body, panicked, renderErr>>

\* a dispatch that takes the directory branch for files
IsDirNegated(i) == i # "dir"

\* info.IsDir() (main.go:138)
IsDir(i) == i = "dir"

\* handleServe up to its dispatch (main.go:125-144).  A stat error other
\* than "not exist" is not handled: info is nil and info.IsDir() panics;
\* net/http recovers the panic and drops the connection without a response.
handleServe ==
    /\ pc = "serve"
    /\ \E p \in {Clean(urlPath)} : \E st \in {Stat(p)} :
       \E o1 \in {Append(ops, Op("stat", Abs(p), st.err = "none"))} :
       /\ path' = p
       /\ statErr' = st.err
       /\ info' = st.info
       /\ IF st.err # "none" /\ IsNotExist(st.err)
            THEN /\ status' = 404
                 /\ body' = HttpError(NoResponse, 404).body
                 /\ panicked' = FALSE
                 /\ ops' = o1
                 /\ pc' = "done"
          ELSE IF st.info = "nil"
            THEN /\ panicked' = TRUE
                 /\ ops' = o1
                 /\ pc' = "done"
                 /\ UNCHANGED <<status, body>>
          ELSE IF IsDir(st.info)
            THEN /\ ops' = o1
                 /\ pc' = "readdir"
                 /\ UNCHANGED <<status, body, panicked>>
          ELSE /\ ops' = Append(o1, Op("serve", FileServerPath(fileServerRoot, urlPath), TRUE))
               /\ pc' = "done"
               /\ UNCHANGED <<status, body, panicked>>
    /\ UNCHANGED <<cfgVars, fsVars, method, urlPath, remoteAddr, contents, list,
                   renderErr, log>>

\* the ioutil.ReadDir(path) of handleServe, result discarded (main.go:139)
handleServeReadDir ==
    /\ pc = "readdir"
    /\ ops' = Append(ops, Op("readdir", Abs(path), ReadDir(path).err = "none"))
    /\ pc' = "handleDirectory"
    /\ UNCHANGED <<cfgVars, fsVars, method, urlPath, remoteAddr, path, statErr,
                   info, contents, list, status, body, panicked, renderErr, log>>

\* Template.ExecuteTemplate(w, ...) failing after n pieces have been written
\* (n = -1: no failure): the pieces go straight to the response
ExecuteTemplate(resp, l, n) ==
    LET t == Template(l) IN
    IF n < 0 THEN [resp |-> WriteAll(resp, t), err |-> FALSE]
    ELSE [resp |-> WriteAll(resp, SubSeq(t, 1, n)), err |-> TRUE]

\* handleDirectory (main.go:101-122)
handleDirectory ==
    /\ pc = "handleDirectory"
    /\ \E rd \in {ReadDir(path)} :
       \E o1 \in {Append(ops, Op("readdir", Abs(path), rd.err = "none"))} :
       IF rd.err # "none"
         THEN /\ status' = HttpError(NoResponse, 500).status
              /\ body' = HttpError(NoResponse, 500).body
              /\ ops' = o1
              /\ UNCHANGED <<contents, list, renderErr, log>>
         ELSE \E shown \in {filterFiles(rd.files)} :
              \E split \in {splitFiles(shown, [fi \in {shown[i] : i \in 1..Len(shown)}
                                                  |-> EntryIsDir(fi)])} :
              \E l \in {[Root |-> Root, Dir |-> path,
                         Directories |-> split.a, Files |-> split.b]} :
              \E n \in -1..Len(Template(l)) :
              \E ex \in {ExecuteTemplate(NoResponse, l, n)} :
              \E final \in {IF ex.err THEN HttpError(ex.resp, 500) ELSE ex.resp} :
                    /\ contents' = rd.files
                    /\ list' = <<l>>
                    /\ renderErr' = ex.err
                    /\ log' = IF ex.err THEN Append(log, <<<<"e", "r", "r">>, remoteAddr>>)
                              ELSE log
                    /\ status' = final.status
                    /\ body' = final.body
                    /\ ops' = Append(o1, Op("render", Abs(path), ~ex.err))
    /\ pc' = "done"
    /\ UNCHANGED <<cfgVars, fsVars, method, urlPath, remoteAddr, path, statErr,
                   info, panicked>>

\* the handler has returned and the server waits for the next request;
\* nothing of a request outlives it
Return ==
    /\ pc = "done"
    /\ pc' = "idle"
    /\ method' = "GET"
    /\ urlPath' = <<>>
    /\ remoteAddr' = "c1"
    /\ path' = <<>>
    /\ statErr' = "none"
    /\ info' = "nil"
    /\ contents' = <<>>
    /\ list' = <<>>
    /\ status' = 0
    /\ body' = <<>>
    /\ panicked' = FALSE
    /\ renderErr' = FALSE
    /\ ops' = <<>>
    /\ log' = <<>>
    /\ UNCHANGED <<cfgVars, fsVars>>

\* another process removes a file or an empty directory below the root
Remove(p) ==
    /\ started
    /\ fsChanges < MaxFsChanges
    /\ p \in exists
    /\ \A q \in exists : ~HasPrefix(q, p \o <<"/">>)
    /\ removed' = removed \cup {p}
    /\ noperm' = noperm \ {p}
    /\ fsChanges' = fsChanges + 1
    /\ UNCHANGED <<cfgVars, pc, method, urlPath, remoteAddr, path, statErr, info,
                   contents, list, status, body, panicked, renderErr, ops, log>>

\* another process revokes or restores the permissions of a directory
Chmod(p) ==
    /\ started
    /\ fsChanges < MaxFsChanges
    /\ p \in exists /\ p \in Dirs
    /\ noperm' = IF p \in noperm THEN noperm \ {p} ELSE noperm \cup {p}
    /\ removed' = removed
    /\ fsChanges' = fsChanges + 1
    /\ UNCHANGED <<cfgVars, pc, method, urlPath, remoteAddr, path, statErr, info,
                   contents, list, status, body, panicked, renderErr, ops, log>>

Next ==
    \/ main
    \/ \E m \in Methods, p \in URLPaths, addr \in Clients : ServeMux(m, p, addr)
    \/ loggingMiddleware
    \/ handleServe
    \/ handleServeReadDir
    \/ handleDirectory
    \/ Return
    \/ \E p \in Mutable : Remove(p)
    \/ \E p \in Mutable : Chmod(p)

Spec == Init /\ [][Next]_vars

\* ----------------------------------------------------------------- claims

\* C1: the Listing built for a directory under the root holds exactly the
\* children of the directory read whose name does not start with ".": each
\* once, directories in Directories and the others in Files, no hidden child
\* in either, each sequence in the order of the directory read.
ListingExact ==
    LET Dot(n)   == Len(n) > 0 /\ n[1] = "."
        Under(p) == p = Getwd \/ HasPrefix(p, Getwd \o <<"/">>)
        Count(seq, c) == Cardinality({k \in 1..Len(seq) : seq[k] = c})
        Pos(c)   == CHOOSE k \in 1..Len(contents) : contents[k] = c
        Ordered(seq) == \A i, j \in 1..Len(seq) : i < j => Pos(seq[i]) < Pos(seq[j])
    IN  (list # <<>> /\ Under(Abs(path))) =>
          LET l == list[1] IN
          /\ \A k \in 1..Len(contents) :
               LET c == contents[k] IN
               /\ Count(l.Directories, c) = IF ~Dot(c.name) /\ c.isDir THEN 1 ELSE 0
               /\ Count(l.Files, c) = IF ~Dot(c.name) /\ ~c.isDir THEN 1 ELSE 0
          /\ \A k \in 1..Len(l.Directories) : Count(contents, l.Directories[k]) = 1
          /\ \A k \in 1..Len(l.Files) : Count(contents, l.Files[k]) = 1
          /\ Ordered(l.Directories)
          /\ Ordered(l.Files)

\* C1 witness: a listing of the root whose directory read held a hidden
\* child, a file between directories and several directories
ListingExactWitness ==
    /\ list # <<>>
    /\ Abs(path) = Getwd
    /\ \E k \in 1..Len(contents) : contents[k].name[1] = "."
    /\ Len(list[1].Directories) >= 2
    /\ Len(list[1].Files) >= 1

\* C2: a stat error other than "does not exist" is answered with 500, and
\* neither the file type is inspected nor a handler dispatched to.
StatErrorIs500 ==
    (pc = "done" /\ statErr \notin {"none", "ENOENT"}) =>
        /\ status = 500
        /\ ~panicked
        /\ \A k \in 1..Len(ops) : ops[k].op \notin {"readdir", "render", "serve"}

\* C3: a request whose cleaned path does not exist on disk is answered with
\* 404 and touches the disk with the one stat only.
MissingIs404 ==
    (pc = "done" /\ statErr \in {"ENOENT", "ENOTDIR"}) =>
        /\ status = 404
        /\ ~panicked
        /\ Cardinality({k \in 1..Len(ops) : ops[k].op = "stat"}) = 1
        /\ \A k \in 1..Len(ops) : ops[k].op \notin {"readdir", "render", "serve"}

\* C4: a request resolving to an existing non-directory is handed to the
\* static-file handler and never to handleDirectory; a request resolving to
\* a directory is never handed to the static-file handler.
DispatchExclusive ==
    /\ (pc = "done" /\ statErr = "none" /\ info = "file") =>
          /\ Cardinality({k \in 1..Len(ops) : ops[k].op = "serve"}) = 1
          /\ \A k \in 1..Len(ops) : ops[k].op \notin {"readdir", "render"}
          /\ list = <<>>
    /\ (statErr = "none" /\ info = "dir") =>
          \A k \in 1..Len(ops) : ops[k].op # "serve"

\* C4 witness: a request for an existing file has been handed to the file server
DispatchExclusiveWitness ==
    /\ pc = "done"
    /\ info = "file"
    /\ \E k \in 1..Len(ops) : ops[k].op = "serve"

\* C5: the link of every child in the listing of a directory under the root,
\* resolved again (leading "/" stripped, cleaned, taken relative to the
\* root), denotes that child.
LinksResolve ==
    LET Under(p)   == p = Getwd \/ HasPrefix(p, Getwd \o <<"/">>)
        Resolve(h) == Abs(Clean(TrimPrefix(h, <<"/">>)))
    IN  (list # <<>> /\ Under(Abs(path))) =>
          \A k \in 1..Len(body) :
              body[k].kind \in {"dir", "file"} =>
                  Resolve(body[k].href) = Child(Abs(path), body[k].name)

\* C6: when rendering the template fails, the failure is logged, the client
\* gets a 500 and nothing of the listing has been written before it.
RenderFailureIs500 ==
    renderErr =>
        /\ status = 500
        /\ \A k \in 1..Len(body) : body[k].kind = "error"
        /\ Len(log) = 2

\* C7: a failed directory read ends the request with a 500 and no listing,
\* and no further read of the directory follows it.
NoReadRetry ==
    \A i \in 1..Len(ops) :
        (ops[i].op = "readdir" /\ ~ops[i].ok) =>
            /\ \A j \in 1..Len(ops) : j > i => ops[j].op \notin {"readdir", "render"}
            /\ pc = "done" => (status = 500 /\ list = <<>>)

\* C8: after startup the package-level Root is the working directory
\* captured at startup, also as the Root of every Listing.
RootIsStartupDir ==
    started =>
        /\ Root = fileServerRoot
        /\ list # <<>> => list[1].Root = fileServerRoot

\* C9: every request the chain handles is logged exactly once, with its
\* rooted display path and the client's address, before anything else is
\* done for it.
LoggedOnceFirst ==
    LET Relativize(dir, root) == Clean(<<"/">> \o TrimPrefix(Abs(dir), Abs(root)))
    IN  (pc \in {"serve", "readdir", "handleDirectory"} \/ (pc = "done" /\ status # 301)) =>
          /\ Cardinality({k \in 1..Len(ops) : ops[k].op = "log"}) = 1
          /\ ops[1].op = "log"
          /\ log[1] = <<Relativize(Clean(urlPath), fileServerRoot), remoteAddr>>

\* C10: every path that is stat-ed, read as a directory or served lies at or
\* below the serving root.
StaysUnderRoot ==
    LET Under(p) == p = fileServerRoot \/ HasPrefix(p, fileServerRoot \o <<"/">>)
    IN  \A k \in 1..Len(ops) :
            ops[k].op \in {"stat", "readdir", "serve"} => Under(ops[k].path)

====
